---- MODULE Spec2Model ----
(***************************************************************************)
(* A model of json-schema-detector: the type inference walk of             *)
(* pkg/analyzer, its merge engine, the JSON-path field locator of          *)
(* pkg/fieldmanager and the field-editing operations of cmd/update-field.  *)
(*                                                                         *)
(* Go strings are sequences of one-character strings, so that splitting,   *)
(* joining, strconv.Atoi and fmt.Sprintf are computed, not assumed.        *)
(* A Go map is a record [nil, m]: a nil map and an empty map differ.       *)
(* An optional value (a nil-able pointer or interface) is a sequence of    *)
(* length 0 or 1.  A string literal of the source that is only stored and   *)
(* compared is kept as one element.                                        *)
(***************************************************************************)
EXTENDS Integers, Sequences, FiniteSets, TLC

VARIABLES
    existing,   \* the analysis result held by the program: [schema, stats]
    last,       \* the last operation: its name, inputs, outcome and pre-state
    nops        \* number of operations performed so far

vars == <<existing, last, nops>>

---------------------------------------------------------------------------
(* Bounds of the model *)

\* operations performed after the first analysis
MaxOps == 2

\* elements of the arrays given to the type inference on its own
MaxElems == 2

\* variants in the oneOf and in the anyOf list of a schema file written by hand
MaxVariants == 2

---------------------------------------------------------------------------
(* Strings *)

admin == <<"a", "d", "m", "i", "n">>
user == <<"u", "s", "e", "r">>
one == <<"1">>
true == <<"t", "r", "u", "e">>
false == <<"f", "a", "l", "s", "e">>
empty == <<>>

kA == <<"a">>
kB == <<"b">>
kType == <<"t", "y", "p", "e">>
k0 == <<"0">>
\* twenty digits: a number no int holds
kBig == <<"9", "9", "9", "9", "9", "9", "9", "9", "9", "9",
          "9", "9", "9", "9", "9", "9", "9", "9", "9", "9">>

\* the order in which one run of the program iterates the keys of its maps
Orders == {<<kA, kB, k0, kBig>>, <<kBig, k0, kB, kA>>}

---------------------------------------------------------------------------
(* Decoded JSON values (encoding/json into interface{}) *)

JStr(s) == [kind |-> "string", s |-> s, n |-> 0, b |-> FALSE]
JNum(n) == [kind |-> "number", s |-> <<>>, n |-> n, b |-> FALSE]
JBool(b) == [kind |-> "boolean", s |-> <<>>, n |-> 0, b |-> b]
JNull == [kind |-> "null", s |-> <<>>, n |-> 0, b |-> FALSE]
JObj(f) == [kind |-> "object", f |-> f]
JArr(a) == [kind |-> "array", a |-> a]

Obj1(k, v) == JObj(k :> v)
Obj2(k1, v1, k2, v2) == JObj(k1 :> v1 @@ k2 :> v2)

---------------------------------------------------------------------------
(* Go maps and optional values *)

NilMap == [nil |-> TRUE, m |-> <<>>]
MakeMap == [nil |-> FALSE, m |-> <<>>]
None == <<>>
Some(v) == <<v>>

\* m[key]++ on a map of counters (a missing key reads as 0)
Inc(m, key) == IF key \in DOMAIN m THEN [m EXCEPT ![key] = @ + 1] ELSE (key :> 1) @@ m

---------------------------------------------------------------------------
(* The schema model *)

\* &types.Property{Type: type}
NewProperty(type) ==
    [type |-> type, properties |-> NilMap, items |-> None, required |-> <<>>,
     enum |-> <<>>, oneOf |-> <<>>, anyOf |-> <<>>, description |-> <<>>,
     default |-> None, preserveDefault |-> FALSE]

\* &types.JSONSchema{Type: type}
NewJSONSchema(type) ==
    [schema |-> "", type |-> type, properties |-> NilMap, items |-> None,
     required |-> <<>>, enum |-> <<>>, oneOf |-> <<>>, anyOf |-> <<>>,
     description |-> <<>>, default |-> None]

\* &types.AnalysisStatistics{FieldFrequency: make(...), TypeDistribution: make(...)}
NewStatistics == [fieldFrequency |-> <<>>, typeDistribution |-> <<>>, totalObjects |-> 0]

---------------------------------------------------------------------------
(* pkg/analyzer: type inference *)

\* the keys of a map in the order this run iterates them
KeysInOrder(S, ord) == SelectSeq(ord, LAMBDA k : k \in S)

RECURSIVE analyzeValue(_, _, _)
RECURSIVE analyzeFields(_, _, _, _, _)

\* the loop of analyzeObject over the keys still to visit
analyzeFields(obj, keys, property, stats, ord) ==
    IF keys = <<>> THEN [p |-> property, st |-> stats]
    ELSE LET key == Head(keys)
             st1 == [stats EXCEPT !.fieldFrequency = Inc(@, key)]
             r == analyzeValue(obj[key], st1, ord)
         IN analyzeFields(obj, Tail(keys),
                          [property EXCEPT !.properties.m = (key :> r.p) @@ @,
                                           !.required = Append(@, key)],
                          r.st, ord)

analyzeObject(obj, stats, ord) ==
    LET st0 == [stats EXCEPT !.typeDistribution = Inc(@, "object"),
                             !.totalObjects = @ + 1]
        property == [NewProperty("object") EXCEPT !.properties = MakeMap]
    IN analyzeFields(obj, KeysInOrder(DOMAIN obj, ord), property, st0, ord)

\* a variant that infers the item schema from the last element
analyzeArray_LastElement(arr, stats, ord) ==
    LET st0 == [stats EXCEPT !.typeDistribution = Inc(@, "array")]
        property == NewProperty("array")
    IN IF Len(arr) = 0 THEN [p |-> property, st |-> st0]
       ELSE LET r == analyzeValue(arr[Len(arr)], st0, ord)
            IN [p |-> [property EXCEPT !.items = Some(r.p)], st |-> r.st]

analyzeArray(arr, stats, ord) ==
    LET st0 == [stats EXCEPT !.typeDistribution = Inc(@, "array")]
        property == NewProperty("array")
    IN IF Len(arr) = 0 THEN [p |-> property, st |-> st0]
       ELSE LET r == analyzeValue(arr[1], st0, ord)
            IN [p |-> [property EXCEPT !.items = Some(r.p)], st |-> r.st]

\* a variant that treats false as it treats zero and the empty string
analyzeValue_SkipsFalse(value, stats, ord) ==
    CASE value.kind = "object" -> analyzeObject(value.f, stats, ord)
      [] value.kind = "array" -> analyzeArray(value.a, stats, ord)
      [] value.kind = "string" ->
            [p |-> [NewProperty("string") EXCEPT
                        !.default = IF value.s # <<>> THEN Some(value) ELSE None],
             st |-> [stats EXCEPT !.typeDistribution = Inc(@, "string")]]
      [] value.kind = "number" ->
            [p |-> [NewProperty("number") EXCEPT
                        !.default = IF value.n # 0 THEN Some(value) ELSE None],
             st |-> [stats EXCEPT !.typeDistribution = Inc(@, "number")]]
      [] value.kind = "boolean" ->
            [p |-> [NewProperty("boolean") EXCEPT
                        !.default = IF value.b THEN Some(value) ELSE None],
             st |-> [stats EXCEPT !.typeDistribution = Inc(@, "boolean")]]
      [] value.kind = "null" ->
            [p |-> NewProperty("null"),
             st |-> [stats EXCEPT !.typeDistribution = Inc(@, "null")]]

analyzeValue(value, stats, ord) ==
    CASE value.kind = "object" -> analyzeObject(value.f, stats, ord)
      [] value.kind = "array" -> analyzeArray(value.a, stats, ord)
      [] value.kind = "string" ->
            [p |-> [NewProperty("string") EXCEPT
                        !.default = IF value.s # <<>> THEN Some(value) ELSE None],
             st |-> [stats EXCEPT !.typeDistribution = Inc(@, "string")]]
      [] value.kind = "number" ->
            [p |-> [NewProperty("number") EXCEPT
                        !.default = IF value.n # 0 THEN Some(value) ELSE None],
             st |-> [stats EXCEPT !.typeDistribution = Inc(@, "number")]]
      [] value.kind = "boolean" ->
            [p |-> [NewProperty("boolean") EXCEPT !.default = Some(value)],
             st |-> [stats EXCEPT !.typeDistribution = Inc(@, "boolean")]]
      [] value.kind = "null" ->
            [p |-> NewProperty("null"),
             st |-> [stats EXCEPT !.typeDistribution = Inc(@, "null")]]

DraftURI == "http://json-schema.org/draft-07/schema#"

analyzeData(data, ord) ==
    LET r == analyzeValue(data, NewStatistics, ord)
    IN [schema |-> [NewJSONSchema(r.p.type) EXCEPT
                        !.schema = DraftURI,
                        !.properties = r.p.properties,
                        !.items = r.p.items,
                        !.required = r.p.required,
                        !.default = r.p.default,
                        !.description = <<"Generated JSON Schema">>],
        stats |-> Some(r.st)]

---------------------------------------------------------------------------
(* fmt.Sprintf("%v", v) of a default value *)

DigitChars == <<"0", "1", "2", "3", "4", "5", "6", "7", "8", "9">>

RECURSIVE FormatNat(_)
FormatNat(n) ==
    IF n < 10 THEN <<DigitChars[n + 1]>>
    ELSE FormatNat(n \div 10) \o <<DigitChars[(n % 10) + 1]>>

Sprintf(v) ==
    CASE v.kind = "string" -> v.s
      [] v.kind = "number" -> IF v.n < 0 THEN <<"-">> \o FormatNat(-v.n) ELSE FormatNat(v.n)
      [] v.kind = "boolean" -> IF v.b THEN true ELSE false
      [] v.kind = "null" -> <<"<", "n", "i", "l", ">">>

---------------------------------------------------------------------------
(* pkg/analyzer: the merge engine *)

isEqualValue(a1, a2) == Sprintf(a1) = Sprintf(a2)

\* a variant that lets the last observed value win instead of clearing
updateDefaultValue_LastWins(existingProp, newProp) ==
    IF newProp.default # None /\ existingProp.default # None
          /\ ~isEqualValue(existingProp.default[1], newProp.default[1])
    THEN [existingProp EXCEPT !.default = newProp.default]
    ELSE IF existingProp.default = None /\ newProp.default # None
         THEN [existingProp EXCEPT !.default = newProp.default]
         ELSE existingProp

\* a variant that adopts the whole incoming node where it should adopt its default
updateDefaultValue_AdoptsNode(existingProp, newProp) ==
    IF existingProp.default = None /\ newProp.default # None
    THEN newProp
    ELSE IF existingProp.default # None /\ newProp.default # None
              /\ ~isEqualValue(existingProp.default[1], newProp.default[1])
         THEN [existingProp EXCEPT !.default = None]
         ELSE existingProp

updateDefaultValue(existingProp, newProp) ==
    IF existingProp.default = None /\ newProp.default # None
    THEN [existingProp EXCEPT !.default = newProp.default]
    ELSE IF existingProp.default # None /\ newProp.default # None
              /\ ~isEqualValue(existingProp.default[1], newProp.default[1])
         THEN [existingProp EXCEPT !.default = None]
         ELSE existingProp

RECURSIVE mergeProperty(_, _)
RECURSIVE mergeProperties(_, _)

\* a variant that rebuilds the map from the incoming keys alone
mergeProperties_DropsAbsent(existingMap, newMap) ==
    [key \in DOMAIN newMap |->
        IF key \in DOMAIN existingMap
        THEN mergeProperty(existingMap[key], newMap[key])
        ELSE newMap[key]]

\* existingMap and newMap are the contents of two non-nil maps; every iteration
\* of the loop touches the entry of its own key only
mergeProperties(existingMap, newMap) ==
    [key \in DOMAIN existingMap \cup DOMAIN newMap |->
        IF key \in DOMAIN newMap
        THEN IF key \in DOMAIN existingMap
             THEN mergeProperty(existingMap[key], newMap[key])
             ELSE newMap[key]
        ELSE existingMap[key]]

\* a variant without the preserveDefault guard
mergeProperty_IgnoresFlag(existingProp, newProp) ==
    LET e1 == updateDefaultValue(existingProp, newProp)
        e2 == IF e1.type = "object" /\ newProp.type = "object"
              THEN LET made == IF e1.properties.nil
                               THEN [e1 EXCEPT !.properties = MakeMap]
                               ELSE e1
                   IN IF ~newProp.properties.nil
                      THEN [made EXCEPT !.properties.m =
                                mergeProperties(@, newProp.properties.m)]
                      ELSE made
              ELSE e1
    IN IF e2.type = "array" /\ newProp.type = "array"
          /\ e2.items # None /\ newProp.items # None
       THEN [e2 EXCEPT !.items = Some(mergeProperty(e2.items[1], newProp.items[1]))]
       ELSE e2

mergeProperty(existingProp, newProp) ==
    LET e1 == IF ~existingProp.preserveDefault
              THEN updateDefaultValue(existingProp, newProp)
              ELSE existingProp
        e2 == IF e1.type = "object" /\ newProp.type = "object"
              THEN LET made == IF e1.properties.nil
                               THEN [e1 EXCEPT !.properties = MakeMap]
                               ELSE e1
                   IN IF ~newProp.properties.nil
                      THEN [made EXCEPT !.properties.m =
                                mergeProperties(@, newProp.properties.m)]
                      ELSE made
              ELSE e1
    IN IF e2.type = "array" /\ newProp.type = "array"
          /\ e2.items # None /\ newProp.items # None
       THEN [e2 EXCEPT !.items = Some(mergeProperty(e2.items[1], newProp.items[1]))]
       ELSE e2

\* existing.Statistics.X[key] += count for every key of new.Statistics.X
addCounters(existingMap, newMap) ==
    [key \in DOMAIN existingMap \cup DOMAIN newMap |->
        IF key \in DOMAIN newMap
        THEN (IF key \in DOMAIN existingMap THEN existingMap[key] ELSE 0) + newMap[key]
        ELSE existingMap[key]]

mergeStatistics(existingStats, newStats) ==
    IF existingStats # None /\ newStats # None
    THEN Some([fieldFrequency |->
                   addCounters(existingStats[1].fieldFrequency, newStats[1].fieldFrequency),
               typeDistribution |->
                   addCounters(existingStats[1].typeDistribution, newStats[1].typeDistribution),
               totalObjects |-> existingStats[1].totalObjects + newStats[1].totalObjects])
    ELSE existingStats

\* the root call of mergeProperties writes into existing.Schema.Properties as it
\* is: an assignment to an entry of a nil map panics
mergeRootPanics(existingResult, newResult) ==
    /\ existingResult.schema.properties.nil
    /\ DOMAIN newResult.schema.properties.m # {}

\* a variant that also appends the incoming required keys the root lacks
MergeResults_UnionsRequired(existingResult, newResult) ==
    IF mergeRootPanics(existingResult, newResult)
    THEN [panic |-> TRUE, result |-> existingResult]
    ELSE [panic |-> FALSE,
          result |->
            [schema |-> [existingResult.schema EXCEPT
                            !.properties.m = mergeProperties(@, newResult.schema.properties.m),
                            !.required = @ \o SelectSeq(newResult.schema.required,
                                LAMBDA k : \A i \in 1..Len(existingResult.schema.required) :
                                               existingResult.schema.required[i] # k)],
             stats |-> mergeStatistics(existingResult.stats, newResult.stats)]]

\* a variant that adopts the incoming root's item schema where the root has none
MergeResults_AdoptsRootItems(existingResult, newResult) ==
    IF mergeRootPanics(existingResult, newResult)
    THEN [panic |-> TRUE, result |-> existingResult]
    ELSE [panic |-> FALSE,
          result |->
            [schema |-> [existingResult.schema EXCEPT
                            !.properties.m = mergeProperties(@, newResult.schema.properties.m),
                            !.items = IF @ = None THEN newResult.schema.items ELSE @],
             stats |-> mergeStatistics(existingResult.stats, newResult.stats)]]

\* [panic, result]: panic is TRUE when the call does not return
MergeResults(existingResult, newResult) ==
    IF mergeRootPanics(existingResult, newResult)
    THEN [panic |-> TRUE, result |-> existingResult]
    ELSE [panic |-> FALSE,
          result |->
            [schema |-> [existingResult.schema EXCEPT !.properties.m =
                            mergeProperties(@, newResult.schema.properties.m)],
             stats |-> mergeStatistics(existingResult.stats, newResult.stats)]]

---------------------------------------------------------------------------
(* SaveSchema followed by LoadSchema: what the next command starts from *)

RECURSIVE roundTripProperty(_)
RECURSIVE roundTripSchema(_)

\* `json:"properties,omitempty"` drops a nil and an empty map alike
roundTripMap(props) ==
    IF props.nil \/ DOMAIN props.m = {} THEN NilMap
    ELSE [nil |-> FALSE, m |-> [k \in DOMAIN props.m |-> roundTripProperty(props.m[k])]]

roundTripProperty(p) ==
    [p EXCEPT !.properties = roundTripMap(@),
              !.items = IF @ = None THEN None ELSE Some(roundTripProperty(@[1])),
              !.oneOf = [i \in 1..Len(@) |-> roundTripSchema(@[i])],
              !.anyOf = [i \in 1..Len(@) |-> roundTripSchema(@[i])]]

roundTripSchema(s) ==
    [s EXCEPT !.properties = roundTripMap(@),
              !.items = IF @ = None THEN None ELSE Some(roundTripProperty(@[1])),
              !.oneOf = [i \in 1..Len(@) |-> roundTripSchema(@[i])],
              !.anyOf = [i \in 1..Len(@) |-> roundTripSchema(@[i])]]

\* LoadSchema sets Schema and Metadata only: Statistics is nil
LoadSchema(saved) == [schema |-> roundTripSchema(saved.schema), stats |-> None]

---------------------------------------------------------------------------
(* Positions in a schema tree: the steps from the root to a node *)

PropStep(key) == [t |-> "prop", k |-> key, i |-> 0]
ItemsStep == [t |-> "items", k |-> <<>>, i |-> 0]
OneOfStep(i) == [t |-> "oneOf", k |-> <<>>, i |-> i]
AnyOfStep(i) == [t |-> "anyOf", k |-> <<>>, i |-> i]

\* the child of a node one step down
Child(node, step) ==
    CASE step.t = "prop" -> node.properties.m[step.k]
      [] step.t = "items" -> node.items[1]
      [] step.t = "oneOf" -> node.oneOf[step.i]
      [] step.t = "anyOf" -> node.anyOf[step.i]

HasChild(node, step) ==
    CASE step.t = "prop" -> step.k \in DOMAIN node.properties.m
      [] step.t = "items" -> node.items # None
      [] step.t = "oneOf" -> step.i \in 1..Len(node.oneOf)
      [] step.t = "anyOf" -> step.i \in 1..Len(node.anyOf)

StepsOf(node) ==
    {PropStep(key) : key \in DOMAIN node.properties.m}
        \cup (IF node.items # None THEN {ItemsStep} ELSE {})
        \cup {OneOfStep(i) : i \in 1..Len(node.oneOf)}
        \cup {AnyOfStep(i) : i \in 1..Len(node.anyOf)}

RECURSIVE Locs(_)
\* every position of the tree under node, the node's own (<<>>) included
Locs(node) ==
    {<<>>} \cup UNION {{<<step>> \o loc : loc \in Locs(Child(node, step))} :
                          step \in StepsOf(node)}

RECURSIVE HasLoc(_, _)
HasLoc(node, loc) ==
    \/ loc = <<>>
    \/ /\ HasChild(node, Head(loc))
       /\ HasLoc(Child(node, Head(loc)), Tail(loc))

RECURSIVE NodeAt(_, _)
NodeAt(node, loc) ==
    IF loc = <<>> THEN node ELSE NodeAt(Child(node, Head(loc)), Tail(loc))

RECURSIVE ReplaceAt(_, _, _)
\* the tree with the node at loc replaced: what a write through the pointer
\* FindField returned does to the tree
ReplaceAt(node, loc, new) ==
    IF loc = <<>> THEN new
    ELSE LET step == Head(loc)
             sub == ReplaceAt(Child(node, step), Tail(loc), new)
         IN CASE step.t = "prop" -> [node EXCEPT !.properties.m[step.k] = sub]
              [] step.t = "items" -> [node EXCEPT !.items = Some(sub)]
              [] step.t = "oneOf" -> [node EXCEPT !.oneOf[step.i] = sub]
              [] step.t = "anyOf" -> [node EXCEPT !.anyOf[step.i] = sub]

IsProperty(node) == "preserveDefault" \in DOMAIN node

---------------------------------------------------------------------------
(* strconv.Atoi *)

IsDigit(c) == \E d \in 1..10 : DigitChars[d] = c
DigitVal(c) == (CHOOSE d \in 1..10 : DigitChars[d] = c) - 1

RECURSIVE StripZeros(_)
StripZeros(ds) == IF ds # <<>> /\ Head(ds) = "0" THEN StripZeros(Tail(ds)) ELSE ds

RECURSIVE DigitsLE(_, _)
\* two digit strings of the same length, compared as numbers
DigitsLE(x, y) ==
    \/ x = <<>>
    \/ DigitVal(Head(x)) < DigitVal(Head(y))
    \/ /\ Head(x) = Head(y)
       /\ DigitsLE(Tail(x), Tail(y))

\* math.MaxInt64 and -math.MinInt64 (int is 64 bits wide)
MaxInt64Digits ==
    <<"9", "2", "2", "3", "3", "7", "2", "0", "3", "6", "8", "5", "4", "7", "7", "5", "8", "0", "7">>
MinInt64Digits ==
    <<"9", "2", "2", "3", "3", "7", "2", "0", "3", "6", "8", "5", "4", "7", "7", "5", "8", "0", "8">>

\* TRUE when strconv.Atoi(s) returns a nil error: an optional sign, then one or
\* more decimal digits whose value fits an int
AtoiOk(s) ==
    LET signed == s # <<>> /\ Head(s) \in {"+", "-"}
        digits == IF signed THEN Tail(s) ELSE s
        sig == StripZeros(digits)
        limit == IF signed /\ Head(s) = "-" THEN MinInt64Digits ELSE MaxInt64Digits
    IN /\ digits # <<>>
       /\ \A i \in 1..Len(digits) : IsDigit(digits[i])
       /\ \/ Len(sig) < Len(limit)
          \/ Len(sig) = Len(limit) /\ DigitsLE(sig, limit)

---------------------------------------------------------------------------
(* pkg/fieldmanager: the field locator *)

RECURSIVE SplitDots(_, _)
\* strings.Split(s, "."): cur is the segment being read
SplitDots(s, cur) ==
    IF s = <<>> THEN <<cur>>
    ELSE IF Head(s) = "." THEN <<cur>> \o SplitDots(Tail(s), <<>>)
         ELSE SplitDots(Tail(s), Append(cur, Head(s)))

\* [err, segments]
parseJSONPath(jsonPath) ==
    IF jsonPath = <<>> THEN [err |-> "empty path", segments |-> <<>>]
    ELSE LET stripped == IF Head(jsonPath) = "." THEN Tail(jsonPath) ELSE jsonPath
             cleanSegments == SelectSeq(SplitDots(stripped, <<>>), LAMBDA seg : seg # <<>>)
         IN IF Len(cleanSegments) = 0
            THEN [err |-> "no valid segments", segments |-> <<>>]
            ELSE [err |-> "", segments |-> cleanSegments]

Found(node, loc) == [err |-> "", node |-> Some(node), loc |-> loc]
Failed(err) == [err |-> err, node |-> None, loc |-> <<>>]

RECURSIVE findFieldInSchema(_, _, _)
RECURSIVE findInVariants(_, _, _, _, _)

\* the loops over schema.OneOf and schema.AnyOf: the first variant that has the
\* field; kind is "oneOf" or "anyOf", i the next variant to try
findInVariants(variants, kind, i, fieldName, base) ==
    IF i > Len(variants) THEN Failed("field not found")
    ELSE LET step == IF kind = "oneOf" THEN OneOfStep(i) ELSE AnyOfStep(i)
             r == findFieldInSchema(variants[i], fieldName, Append(base, step))
         IN IF r.err = "" THEN r
            ELSE findInVariants(variants, kind, i + 1, fieldName, base)

\* a variant that searches the anyOf variants before the oneOf variants
findFieldInSchema_AnyOfFirst(schema, fieldName, base) ==
    IF ~schema.properties.nil /\ fieldName \in DOMAIN schema.properties.m
    THEN Found(schema.properties.m[fieldName], Append(base, PropStep(fieldName)))
    ELSE LET inAnyOf == findInVariants(schema.anyOf, "anyOf", 1, fieldName, base)
         IN IF inAnyOf.err = "" THEN inAnyOf
            ELSE findInVariants(schema.oneOf, "oneOf", 1, fieldName, base)

\* schema is the JSONSchema searched, base its position in the tree
findFieldInSchema(schema, fieldName, base) ==
    IF ~schema.properties.nil /\ fieldName \in DOMAIN schema.properties.m
    THEN Found(schema.properties.m[fieldName], Append(base, PropStep(fieldName)))
    ELSE LET inOneOf == findInVariants(schema.oneOf, "oneOf", 1, fieldName, base)
         IN IF inOneOf.err = "" THEN inOneOf
            ELSE findInVariants(schema.anyOf, "anyOf", 1, fieldName, base)

\* the copy shares prop's maps, slices and Items pointer
propertyToSchema(prop) ==
    [NewJSONSchema(prop.type) EXCEPT
        !.properties = prop.properties,
        !.required = prop.required,
        !.enum = prop.enum,
        !.oneOf = prop.oneOf,
        !.anyOf = prop.anyOf,
        !.description = prop.description,
        !.items = prop.items]

RECURSIVE findFieldRecursive(_, _, _, _)
\* index counts from 0 as in the source; base is the position of schema
findFieldRecursive(schema, path, index, base) ==
    IF index >= Len(path) THEN Failed("end of path")
    ELSE
    LET segment == path[index + 1] IN
    IF AtoiOk(segment)
    THEN IF index = 0 THEN Failed("leading index")
         ELSE LET prevSegment == path[index]
                  prev == findFieldInSchema(schema, prevSegment, base)
              IN IF prev.err # "" THEN Failed("field not found")
                 ELSE LET prevField == prev.node[1] IN
                      IF prevField.type # "array" \/ prevField.items = None
                      THEN Failed("not an array")
                      ELSE IF index = Len(path) - 1
                           THEN Found(prevField.items[1], Append(prev.loc, ItemsStep))
                           ELSE findFieldRecursive(propertyToSchema(prevField.items[1]),
                                                   path, index + 1,
                                                   Append(prev.loc, ItemsStep))
    ELSE IF index = Len(path) - 1 THEN findFieldInSchema(schema, segment, base)
    ELSE
    LET f == findFieldInSchema(schema, segment, base) IN
    IF f.err # "" THEN f
    ELSE
    LET field == f.node[1] IN
    IF index + 1 < Len(path) /\ AtoiOk(path[index + 2])
    THEN IF field.type = "array" /\ field.items # None
         THEN IF index + 2 >= Len(path)
              THEN Found(field.items[1], Append(f.loc, ItemsStep))
              ELSE findFieldRecursive(propertyToSchema(field.items[1]), path, index + 2,
                                      Append(f.loc, ItemsStep))
         ELSE Failed("must be an array")
    ELSE IF field.type = "object" /\ ~field.properties.nil
         THEN findFieldRecursive(propertyToSchema(field), path, index + 1, f.loc)
         ELSE Failed("cannot descend")

FindField(schema, jsonPath) ==
    LET parsed == parseJSONPath(jsonPath)
    IN IF parsed.err # "" THEN Failed("path parse error")
       ELSE findFieldRecursive(schema, parsed.segments, 0, <<>>)

\* fmt.Sprintf(".oneOf[%d]", i) without the dot; i counts from 0
VariantMarker(kind, i) ==
    (IF kind = "oneOf" THEN <<"o", "n", "e", "O", "f">> ELSE <<"a", "n", "y", "O", "f">>)
        \o <<"[">> \o FormatNat(i) \o <<"]">>

Join(prefix, name) == IF prefix # <<>> THEN prefix \o <<".">> \o name ELSE name

RECURSIVE listFieldsRecursive(_, _)
\* the paths appended to *fields, as a set: the order is the iteration order of
\* the maps, which Go leaves unspecified
listFieldsRecursive(schema, prefix) ==
    (IF ~schema.properties.nil
     THEN UNION {LET field == schema.properties.m[fieldName]
                     fullPath == Join(prefix, fieldName)
                 IN {fullPath}
                    \cup (IF field.type = "object" /\ ~field.properties.nil
                          THEN listFieldsRecursive(propertyToSchema(field), fullPath)
                          ELSE {})
                    \cup (IF field.type = "array" /\ field.items # None
                          THEN listFieldsRecursive(propertyToSchema(field.items[1]),
                                                   fullPath \o <<".", "0">>)
                          ELSE {})
                 : fieldName \in DOMAIN schema.properties.m}
     ELSE {})
    \cup UNION {listFieldsRecursive(schema.oneOf[i], Join(prefix, VariantMarker("oneOf", i - 1)))
                   : i \in 1..Len(schema.oneOf)}
    \cup UNION {listFieldsRecursive(schema.anyOf[i], Join(prefix, VariantMarker("anyOf", i - 1)))
                   : i \in 1..Len(schema.anyOf)}

ListFields(schema) == listFieldsRecursive(schema, <<>>)

---------------------------------------------------------------------------
(* cmd/update-field: the field-editing operations.  Each returns [err, result]; *)
(* the values typed at the prompts are parameters.                              *)

EditOk(result) == [err |-> "", result |-> result]
EditFailed(err, result) == [err |-> err, result |-> result]

\* a write to the Property that FindField returned
SetField(result, loc, field) == [result EXCEPT !.schema = ReplaceAt(@, loc, field)]

\* a variant without the check of the field's type
handleEnumConversion_AnyType(result, jsonPath, enumValues, interactive, desc) ==
    LET f == FindField(result.schema, jsonPath) IN
    IF f.err # "" THEN EditFailed("field not found", result)
    ELSE IF Len(enumValues) = 0 THEN EditFailed("no enum values", result)
    ELSE LET withEnum == [f.node[1] EXCEPT !.enum = [i \in 1..Len(enumValues) |-> JStr(enumValues[i])]]
             field == IF interactive /\ desc # <<>>
                      THEN [withEnum EXCEPT !.description = desc]
                      ELSE withEnum
         IN EditOk(SetField(result, f.loc, field))

\* enumValues: the non-blank lines read before the first blank one
handleEnumConversion(result, jsonPath, enumValues, interactive, desc) ==
    LET f == FindField(result.schema, jsonPath) IN
    IF f.err # "" THEN EditFailed("field not found", result)
    ELSE IF f.node[1].type # "string" THEN EditFailed("not a string field", result)
    ELSE IF Len(enumValues) = 0 THEN EditFailed("no enum values", result)
    ELSE LET withEnum == [f.node[1] EXCEPT !.enum = [i \in 1..Len(enumValues) |-> JStr(enumValues[i])]]
             field == IF interactive /\ desc # <<>>
                      THEN [withEnum EXCEPT !.description = desc]
                      ELSE withEnum
         IN EditOk(SetField(result, f.loc, field))

\* a variant whose discriminator admits every string
NewVariant_OpenDiscriminator(variantName) ==
    [NewJSONSchema("object") EXCEPT
        !.properties = [nil |-> FALSE, m |-> (kType :> NewProperty("string"))],
        !.description = <<"Variant ">> \o variantName]

\* the variant built for one name; the literal prefix of its description is
\* the Russian word for "Variant" in the source
NewVariant(variantName) ==
    [NewJSONSchema("object") EXCEPT
        !.properties = [nil |-> FALSE,
                        m |-> (kType :> [NewProperty("string") EXCEPT
                                            !.enum = <<JStr(variantName)>>])],
        !.description = <<"Variant ">> \o variantName]

\* a variant that also drops the properties of the converted node
handlePolymorphicConversion_DropsProperties(result, jsonPath, variantNames) ==
    LET f == FindField(result.schema, jsonPath) IN
    IF f.err # "" THEN EditFailed("field not found", result)
    ELSE IF f.node[1].type # "object" THEN EditFailed("not an object field", result)
    ELSE IF Len(variantNames) = 0 THEN EditFailed("no variants", result)
    ELSE EditOk(SetField(result, f.loc,
                         [f.node[1] EXCEPT
                            !.oneOf = [i \in 1..Len(variantNames) |-> NewVariant(variantNames[i])],
                            !.properties = NilMap,
                            !.type = ""]))

\* a variant that leaves the base type in place beside the variants
handlePolymorphicConversion_KeepsType(result, jsonPath, variantNames) ==
    LET f == FindField(result.schema, jsonPath) IN
    IF f.err # "" THEN EditFailed("field not found", result)
    ELSE IF f.node[1].type # "object" THEN EditFailed("not an object field", result)
    ELSE IF Len(variantNames) = 0 THEN EditFailed("no variants", result)
    ELSE EditOk(SetField(result, f.loc,
                         [f.node[1] EXCEPT
                            !.oneOf = [i \in 1..Len(variantNames) |-> NewVariant(variantNames[i])]]))

\* a variant that clears the type before it counts the variants
handlePolymorphicConversion_ClearsTypeFirst(result, jsonPath, variantNames) ==
    LET f == FindField(result.schema, jsonPath) IN
    IF f.err # "" THEN EditFailed("field not found", result)
    ELSE IF f.node[1].type # "object" THEN EditFailed("not an object field", result)
    ELSE IF Len(variantNames) = 0
         THEN EditFailed("no variants",
                         SetField(result, f.loc, [f.node[1] EXCEPT !.type = ""]))
    ELSE EditOk(SetField(result, f.loc,
                         [f.node[1] EXCEPT
                            !.oneOf = [i \in 1..Len(variantNames) |-> NewVariant(variantNames[i])],
                            !.type = ""]))

handlePolymorphicConversion(result, jsonPath, variantNames) ==
    LET f == FindField(result.schema, jsonPath) IN
    IF f.err # "" THEN EditFailed("field not found", result)
    ELSE IF f.node[1].type # "object" THEN EditFailed("not an object field", result)
    ELSE IF Len(variantNames) = 0 THEN EditFailed("no variants", result)
    ELSE EditOk(SetField(result, f.loc,
                         [f.node[1] EXCEPT
                            !.oneOf = [i \in 1..Len(variantNames) |-> NewVariant(variantNames[i])],
                            !.type = ""]))

handlePreserveDefaultUpdate(result, jsonPath) ==
    LET f == FindField(result.schema, jsonPath) IN
    IF f.err # "" THEN EditFailed("field not found", result)
    ELSE EditOk(SetField(result, f.loc, [f.node[1] EXCEPT !.preserveDefault = TRUE]))

handleDescriptionUpdate(result, jsonPath, newDesc) ==
    LET f == FindField(result.schema, jsonPath) IN
    IF f.err # "" THEN EditFailed("field not found", result)
    ELSE IF newDesc # <<>>
         THEN EditOk(SetField(result, f.loc, [f.node[1] EXCEPT !.description = newDesc]))
         ELSE EditOk(result)

---------------------------------------------------------------------------
(* Inputs *)

\* values a field takes in the analysed documents
Scalars ==
    {JStr(admin), JStr(user), JStr(empty), JStr(one), JNum(0), JNum(1),
     JBool(TRUE), JNull}

\* values of the fields of nested objects and of array elements
InnerScalars == {JStr(admin), JStr(user)}

Inner ==
    Scalars
        \cup {Obj1(kB, v) : v \in InnerScalars}
        \cup {JArr(<<>>), JArr(<<JStr(admin)>>)}
        \cup {JArr(<<Obj1(kB, v)>>) : v \in InnerScalars}
        \cup {JArr(<<Obj1(kB, JStr(admin)), Obj1(kA, JStr(user))>>)}

\* the documents analysed: objects, a root array, a root scalar
Docs ==
    {Obj1(kA, v) : v \in Inner}
        \cup {JObj(<<>>), Obj2(kA, JStr(admin), kB, JNum(1)), Obj1(kB, JStr(user))}
        \cup {JArr(<<>>), JArr(<<Obj1(kA, JStr(admin))>>), JNum(1)}

\* the results one document can be analysed to, over the iteration orders
Analyses(data) == {analyzeData(data, ord) : ord \in Orders}

pathA == kA
pathB == kB
pathAB == kA \o <<".">> \o kB
pathA0 == kA \o <<".", "0">>
pathA0B == kA \o <<".", "0", ".">> \o kB

\* the JSON paths given to update-field
EditPaths == {pathA, pathB, pathAB, pathA0, pathA0B}

\* the lines typed at the prompts
EnumInputs == {<<>>, <<admin, user>>}
VariantInputs == {<<>>, <<admin, user>>}
DescInputs == {<<>>, <<"note">>}

NoResult == [schema |-> NewJSONSchema(""), stats |-> None]

\* the record of an operation that located no field
NoFind == [err |-> "none", node |-> None, loc |-> <<>>]

\* args: the lines typed at the prompts of an edit, where it reads any
Op(op, pre, doc, inc, err, path) ==
    [op |-> op, pre |-> pre, doc |-> doc, inc |-> inc, err |-> err, path |-> path,
     found |-> NoFind, args |-> <<>>]

---------------------------------------------------------------------------
(* The program: a first analysis, then merges and field edits *)

\* cmd/analyze: the result of analysing one document
Init ==
    \E data \in Docs :
        \E result \in Analyses(data) :
            /\ existing = result
            /\ last = Op("analyze", NoResult, data, NoResult, "", <<>>)
            /\ nops = 0

\* what an operation on operand pre with incoming result inc leaves behind
Merged(op, pre, data, inc) ==
    LET r == MergeResults(pre, inc)
    IN /\ existing' = r.result
       /\ last' = Op(op, pre, data, inc, IF r.panic THEN "panic" ELSE "", <<>>)
       /\ nops' = nops + 1

\* MergeResults on the result held in memory
Merge ==
    /\ nops < MaxOps
    /\ \E data \in Docs :
           \E inc \in Analyses(data) : Merged("merge", existing, data, inc)

\* cmd/update: load the saved schema, analyse the new document, merge, save
RunUpdate ==
    /\ nops < MaxOps
    /\ LET pre == LoadSchema(existing)
       IN \E data \in Docs :
              \E inc \in Analyses(data) : Merged("update", pre, data, inc)

\* cmd/update-field: load the saved schema, edit one field, save unless it failed
EditedWith(op, pre, path, args, r) ==
    /\ existing' = IF r.err = "" THEN r.result ELSE existing
    /\ last' = [Op(op, pre, JNull, NoResult, r.err, path) EXCEPT !.args = args]
    /\ nops' = nops + 1

Edited(op, pre, path, r) == EditedWith(op, pre, path, <<>>, r)

RunEnum ==
    /\ nops < MaxOps
    /\ LET pre == LoadSchema(existing)
       IN \E path \in EditPaths, values \in EnumInputs, interactive \in BOOLEAN,
             desc \in DescInputs :
              EditedWith("enum", pre, path, values,
                         handleEnumConversion(pre, path, values, interactive, desc))

RunPolymorph ==
    /\ nops < MaxOps
    /\ LET pre == LoadSchema(existing)
       IN \E path \in EditPaths, names \in VariantInputs :
              EditedWith("polymorph", pre, path, names,
                         handlePolymorphicConversion(pre, path, names))

RunPreserve ==
    /\ nops < MaxOps
    /\ LET pre == LoadSchema(existing)
       IN \E path \in EditPaths :
              Edited("preserve-default", pre, path, handlePreserveDefaultUpdate(pre, path))

RunDescription ==
    /\ nops < MaxOps
    /\ LET pre == LoadSchema(existing)
       IN \E path \in EditPaths, newDesc \in DescInputs :
              Edited("description", pre, path, handleDescriptionUpdate(pre, path, newDesc))

Next == Merge \/ RunUpdate \/ RunEnum \/ RunPolymorph \/ RunPreserve \/ RunDescription

Spec == Init /\ [][Next]_vars

---------------------------------------------------------------------------
(* The field locator on its own: schemas of analysed documents, looked up by path *)

LocatorKeys == {kA, k0, kBig}

LocatorDocs ==
    {Obj1(k, JStr(admin)) : k \in LocatorKeys}
        \cup {Obj1(kA, Obj1(k, JStr(admin))) : k \in LocatorKeys}
        \cup {Obj1(kA, JArr(<<Obj1(k, JStr(admin))>>)) : k \in LocatorKeys}
        \cup {Obj1(kA, JArr(<<>>)), Obj1(kA, JArr(<<JArr(<<JStr(admin)>>)>>)),
              Obj1(kA, JArr(<<Obj1(k0, JArr(<<JStr(admin)>>))>>)),
              Obj2(kA, JStr(admin), kB, JArr(<<JNum(1)>>)),
              JArr(<<Obj1(kA, JStr(admin))>>)}

\* paths asked for besides the listed ones
LocatorPaths ==
    {<<>>, <<".">>, k0, k0 \o <<".">> \o kA, kBig, kBig \o <<".">> \o kA,
     pathA, pathB, pathAB, pathA0, pathA0B, pathA0 \o <<".", "0">>,
     <<".">> \o pathA, kB \o <<".", "0">>}

InitLocator ==
    \E data \in LocatorDocs :
        \E result \in Analyses(data) :
            /\ existing = result
            /\ last = Op("analyze", NoResult, data, NoResult, "", <<>>)
            /\ nops = 0

\* FindField on a listed path or on one of the other paths
Find ==
    \E path \in ListFields(existing.schema) \cup LocatorPaths :
        /\ last' = [Op("find", existing, JNull, NoResult, "", path) EXCEPT
                        !.found = FindField(existing.schema, path),
                        !.err = FindField(existing.schema, path).err]
        /\ UNCHANGED <<existing, nops>>

NextLocator == Find

SpecLocator == InitLocator /\ [][NextLocator]_vars

---------------------------------------------------------------------------
(* Properties of the merge engine *)

\* the last operation was a MergeResults call: last.pre is the existing operand
\* as the call received it, last.inc the incoming one, existing the outcome
MergeStep == last.op \in {"merge", "update"}
MergeReturned == MergeStep /\ last.err = ""

DefaultAt(schema, loc) == NodeAt(schema, loc).default

RECURSIVE PairedUnder(_, _)
\* the positions, relative to two nodes of the same path, at which both trees have
\* a node along the same steps: properties of two objects, items of two arrays
PairedUnder(e, n) ==
    {<<>>}
        \cup (IF e.type = "object" /\ n.type = "object"
              THEN UNION {{<<PropStep(k)>> \o loc :
                              loc \in PairedUnder(e.properties.m[k], n.properties.m[k])} :
                          k \in DOMAIN e.properties.m \cap DOMAIN n.properties.m}
              ELSE {})
        \cup (IF e.type = "array" /\ n.type = "array" /\ e.items # None /\ n.items # None
              THEN {<<ItemsStep>> \o loc : loc \in PairedUnder(e.items[1], n.items[1])}
              ELSE {})

\* the positions of the fields the two results have in common
PairedLocs(e, n) ==
    UNION {{<<PropStep(k)>> \o loc :
               loc \in PairedUnder(e.schema.properties.m[k], n.schema.properties.m[k])} :
           k \in DOMAIN e.schema.properties.m \cap DOMAIN n.schema.properties.m}

Annotations(node) ==
    [description |-> node.description, enum |-> node.enum, oneOf |-> node.oneOf,
     anyOf |-> node.anyOf, type |-> node.type,
     preserveDefault |-> IsProperty(node) /\ node.preserveDefault]

\* C3: a merge leaves description, enum, oneOf, anyOf, type and preserveDefault of
\* every node of the existing tree as they were
AnnotationsSurviveMerge ==
    MergeStep =>
        \A loc \in Locs(last.pre.schema) :
            /\ HasLoc(existing.schema, loc)
            /\ Annotations(NodeAt(existing.schema, loc)) =
                   Annotations(NodeAt(last.pre.schema, loc))

\* an annotated field met an incoming field of another type, and a field with an
\* enum had its default changed by the merge
AnnotationsSurviveWitness ==
    /\ MergeReturned
    /\ \E loc \in PairedLocs(last.pre, last.inc) :
           LET node == NodeAt(last.pre.schema, loc)
           IN /\ node.description # <<>> \/ node.enum # <<>> \/ node.oneOf # <<>>
              /\ \/ node.type # NodeAt(last.inc.schema, loc).type
                 \/ DefaultAt(existing.schema, loc) # node.default

\* C4: a merge deletes nothing: every node of the existing tree is still there,
\* and a node the incoming tree has no counterpart for is unchanged
MergeNeverDeletes ==
    MergeStep =>
        \A loc \in Locs(last.pre.schema) :
            /\ HasLoc(existing.schema, loc)
            /\ DOMAIN NodeAt(last.pre.schema, loc).properties.m
                   \subseteq DOMAIN NodeAt(existing.schema, loc).properties.m
            /\ ~HasLoc(last.inc.schema, loc) =>
                   NodeAt(existing.schema, loc) = NodeAt(last.pre.schema, loc)

\* an object kept a key the incoming object lacks while gaining a key from it
MergeNeverDeletesWitness ==
    /\ MergeReturned
    /\ \E loc \in {<<>>} \cup PairedLocs(last.pre, last.inc) :
           LET before == DOMAIN NodeAt(last.pre.schema, loc).properties.m
               incoming == DOMAIN NodeAt(last.inc.schema, loc).properties.m
               after == DOMAIN NodeAt(existing.schema, loc).properties.m
           IN /\ before \ incoming # {}
              /\ incoming \ before # {}
              /\ after = before \cup incoming

\* the value a scalar of the document has, as a default would hold it
IsScalar(value) == value.kind \in {"string", "number", "boolean", "null"}

\* C5: an update with a document whose value of an existing unprotected field
\* differs from the field's recorded default resets that default to nil
DefaultResetOnChange ==
    (last.op = "update" /\ last.err = "" /\ last.doc.kind = "object") =>
        \A k \in DOMAIN last.pre.schema.properties.m \cap DOMAIN last.doc.f :
            LET field == last.pre.schema.properties.m[k]
            IN (/\ IsScalar(last.doc.f[k])
                /\ ~field.preserveDefault
                /\ field.default # None
                /\ last.doc.f[k] # field.default[1]) =>
                   existing.schema.properties.m[k].default = None

\* C6: MergeResults returns for every pair of results
MergeNeverAborts == MergeStep => last.err # "panic"

\* a counter of a statistics block; a missing key and a missing block count 0
Counter(stats, which, key) ==
    IF stats = None THEN 0
    ELSE LET m == IF which = "field" THEN stats[1].fieldFrequency
                  ELSE stats[1].typeDistribution
         IN IF key \in DOMAIN m THEN m[key] ELSE 0

CounterKeys(stats, which) ==
    IF stats = None THEN {}
    ELSE IF which = "field" THEN DOMAIN stats[1].fieldFrequency
         ELSE DOMAIN stats[1].typeDistribution

TotalObjects(stats) == IF stats = None THEN 0 ELSE stats[1].totalObjects

\* C7: after a merge every counter of the result is the sum of the counters the
\* two operands had
MergeAdditivity ==
    MergeReturned =>
        /\ \A which \in {"field", "type"} :
               \A key \in CounterKeys(last.pre.stats, which)
                              \cup CounterKeys(last.inc.stats, which)
                              \cup CounterKeys(existing.stats, which) :
                   Counter(existing.stats, which, key) =
                       Counter(last.pre.stats, which, key)
                           + Counter(last.inc.stats, which, key)
        /\ TotalObjects(existing.stats) =
               TotalObjects(last.pre.stats) + TotalObjects(last.inc.stats)

---------------------------------------------------------------------------
(* Properties of the field locator *)

RECURSIVE HasInfix(_, _)
HasInfix(s, sub) ==
    /\ Len(s) >= Len(sub)
    /\ \/ SubSeq(s, 1, Len(sub)) = sub
       \/ HasInfix(Tail(s), sub)

\* the path holds a oneOf[i] or anyOf[i] marker of ListFields
HasVariantMarker(path) ==
    \/ HasInfix(path, <<"o", "n", "e", "O", "f", "[">>)
    \/ HasInfix(path, <<"a", "n", "y", "O", "f", "[">>)

\* C8: FindField finds a node for every path ListFields returns that holds no
\* variant marker
ListedPathsResolve ==
    (/\ last.op = "find"
     /\ last.path \in ListFields(last.pre.schema)
     /\ ~HasVariantMarker(last.path)) =>
        /\ last.found.err = ""
        /\ last.found.node # None

PurelyNumeric(segment) ==
    /\ segment # <<>>
    /\ \A i \in 1..Len(segment) : IsDigit(segment[i])

\* C9: FindField fails with the leading-index error on every path whose first
\* segment is purely numeric
LeadingIndexRejected ==
    (/\ last.op = "find"
     /\ parseJSONPath(last.path).err = ""
     /\ PurelyNumeric(parseJSONPath(last.path).segments[1])) =>
        /\ last.found.err = "leading index"
        /\ last.found.node = None

---------------------------------------------------------------------------
(* Invariants of the schema tree *)

\* C10: the required list of every node names only keys of the node's properties
RequiredWithinProperties ==
    \A loc \in Locs(existing.schema) :
        LET node == NodeAt(existing.schema, loc)
        IN \A i \in 1..Len(node.required) :
               node.required[i] \in DOMAIN node.properties.m

\* after a merge the tree holds a polymorphic node that kept its required list,
\* and a node that gained a property its required list does not name
RequiredWithinPropertiesWitness ==
    /\ MergeReturned
    /\ \E loc \in Locs(existing.schema) :
           LET node == NodeAt(existing.schema, loc)
           IN node.oneOf # <<>> /\ node.required # <<>>
    /\ \E loc \in Locs(existing.schema) :
           LET node == NodeAt(existing.schema, loc)
           IN /\ node.required # <<>>
              /\ \E k \in DOMAIN node.properties.m :
                     \A i \in 1..Len(node.required) : node.required[i] # k

\* a node carries variants when its oneOf or its anyOf list is populated
HasVariants(node) == node.oneOf # <<>> \/ node.anyOf # <<>>

\* C11: every node of the tree has either a non-empty type or a populated
\* oneOf/anyOf list, and never both
TypeXorVariants ==
    \A loc \in Locs(existing.schema) :
        LET node == NodeAt(existing.schema, loc)
        IN (node.type # "") <=> ~HasVariants(node)

\* a merge returned a tree that holds a polymorphic node, its variants and the
\* discriminator of each variant
TypeXorVariantsWitness ==
    /\ MergeReturned
    /\ \E loc \in Locs(existing.schema) :
           LET node == NodeAt(existing.schema, loc)
           IN /\ node.type = ""
              /\ Len(node.oneOf) = 2
              /\ HasLoc(existing.schema, loc \o <<OneOfStep(2), PropStep(kType)>>)

---------------------------------------------------------------------------
(* The type inference on its own: AnalyzeJSON on one document after another *)

InferScalars == Scalars \cup {JBool(FALSE), JNum(-1)}

\* the elements of the arrays analysed
InferElems ==
    InferScalars \cup {Obj1(kA, JStr(admin)), Obj1(kB, JBool(FALSE)), JArr(<<>>)}

InferArrays == {JArr(a) : a \in UNION {[1..n -> InferElems] : n \in 0..MaxElems}}

InferDocs ==
    InferScalars \cup InferArrays
        \cup {Obj1(kA, v) : v \in InferScalars \cup InferArrays}
        \cup {Obj2(kA, JBool(FALSE), kB, JStr(empty)),
              Obj2(kA, JNum(-1), kB, JArr(<<JNum(1), JStr(admin)>>)),
              Obj2(kA, JArr(<<JArr(<<JNull, JNum(1)>>)>>), kB, JBool(TRUE))}

\* before the first analysis there is no result
InitInfer ==
    /\ existing = NoResult
    /\ last = Op("start", NoResult, JNull, NoResult, "", <<>>)
    /\ nops = 0

\* one run of cmd/analyze: AnalyzeJSON builds a result from the document alone
Infer ==
    /\ nops = 0
    /\ \E data \in InferDocs :
           \E result \in Analyses(data) :
               /\ existing' = result
               /\ last' = Op("infer", NoResult, data, NoResult, "", <<>>)
               /\ nops' = 1

NextInfer == Infer

SpecInfer == InitInfer /\ [][NextInfer]_vars

---------------------------------------------------------------------------
(* Properties of the type inference *)

RECURSIVE ValueAt(_, _)
\* the value of the document a node of the inferred tree was inferred from: a
\* property from the value of its key, an item schema from element 0
ValueAt(value, loc) ==
    IF loc = <<>> THEN value
    ELSE IF Head(loc).t = "prop" THEN ValueAt(value.f[Head(loc).k], Tail(loc))
         ELSE ValueAt(value.a[1], Tail(loc))

\* C12: a string gives type string and the string as default unless it is empty,
\* a number type number and the number as default unless it is zero, a boolean
\* type boolean and the boolean as default, false as well as true, null type
\* null and no default
ScalarInference ==
    last.op = "infer" =>
        \A loc \in Locs(existing.schema) :
            LET node == NodeAt(existing.schema, loc)
                value == ValueAt(last.doc, loc)
            IN /\ value.kind = "string" =>
                      /\ node.type = "string"
                      /\ node.default = IF value.s = <<>> THEN None ELSE Some(value)
               /\ value.kind = "number" =>
                      /\ node.type = "number"
                      /\ node.default = IF value.n = 0 THEN None ELSE Some(value)
               /\ value.kind = "boolean" =>
                      /\ node.type = "boolean"
                      /\ node.default = Some(value)
               /\ value.kind = "null" =>
                      /\ node.type = "null"
                      /\ node.default = None

\* false was inferred inside an object beside an empty string
ScalarInferenceWitness ==
    /\ last.op = "infer"
    /\ last.doc.kind = "object"
    /\ \E k \in DOMAIN last.doc.f :
           /\ last.doc.f[k] = JBool(FALSE)
           /\ existing.schema.properties.m[k].default = Some(JBool(FALSE))
    /\ \E k \in DOMAIN last.doc.f :
           /\ last.doc.f[k] = JStr(empty)
           /\ existing.schema.properties.m[k].default = None

RECURSIVE FirstOnly(_)
\* the document with every array cut down to its element 0
FirstOnly(value) ==
    CASE value.kind = "object" -> JObj([k \in DOMAIN value.f |-> FirstOnly(value.f[k])])
      [] value.kind = "array" ->
            IF Len(value.a) = 0 THEN value ELSE JArr(<<FirstOnly(value.a[1])>>)
      [] OTHER -> value

---------------------------------------------------------------------------
(* Properties of the field edits *)

\* the last operation was the edit op of cmd/update-field: last.pre is the loaded
\* result, last.path the path given, last.args the lines typed
EditStep(op) == last.op = op

\* what FindField gave the handler of the last edit
Located == FindField(last.pre.schema, last.path)

\* an edit that failed saved nothing: the file loads to what it loaded to
NothingSaved == LoadSchema(existing) = last.pre

\* C14: the enum conversion succeeds exactly when the located node has type
\* string and at least one value was supplied; the node then has the supplied
\* values, in their order, as enum and still type string; otherwise it fails
EnumConversionRule ==
    EditStep("enum") =>
        LET legal == /\ Located.err = ""
                     /\ Located.node[1].type = "string"
                     /\ Len(last.args) > 0
        IN IF legal
           THEN /\ last.err = ""
                /\ HasLoc(existing.schema, Located.loc)
                /\ LET node == NodeAt(existing.schema, Located.loc)
                   IN /\ node.type = "string"
                      /\ Len(node.enum) = Len(last.args)
                      /\ \A i \in 1..Len(last.args) : node.enum[i] = JStr(last.args[i])
           ELSE /\ last.err # ""
                /\ NothingSaved

\* a string field inside the items of an array became an enum of two values
EnumConversionWitness ==
    /\ EditStep("enum")
    /\ last.err = ""
    /\ last.path = pathA0B
    /\ Len(last.args) = 2
    /\ NodeAt(existing.schema, Located.loc).enum = <<JStr(admin), JStr(user)>>

\* C15: the polymorphic conversion succeeds exactly when the located node has
\* type object and at least one variant was named; the node then has no type and
\* one oneOf variant per name, in order, each of type object with a discriminator
\* property of type string whose enum is the name alone; otherwise it fails
PolymorphicConversionRule ==
    EditStep("polymorph") =>
        LET legal == /\ Located.err = ""
                     /\ Located.node[1].type = "object"
                     /\ Len(last.args) > 0
        IN IF legal
           THEN /\ last.err = ""
                /\ HasLoc(existing.schema, Located.loc)
                /\ LET node == NodeAt(existing.schema, Located.loc)
                   IN /\ node.type = ""
                      /\ Len(node.oneOf) = Len(last.args)
                      /\ \A i \in 1..Len(last.args) :
                             LET variant == node.oneOf[i]
                             IN /\ variant.type = "object"
                                /\ kType \in DOMAIN variant.properties.m
                                /\ variant.properties.m[kType].type = "string"
                                /\ variant.properties.m[kType].enum = <<JStr(last.args[i])>>
           ELSE /\ last.err # ""
                /\ NothingSaved

\* an object field with properties of its own got two variants
PolymorphicConversionWitness ==
    /\ EditStep("polymorph")
    /\ last.err = ""
    /\ Len(last.args) = 2
    /\ LET node == NodeAt(existing.schema, Located.loc)
       IN /\ Len(node.oneOf) = 2
          /\ DOMAIN node.properties.m # {}

---------------------------------------------------------------------------
(* Properties of the field locator on edited trees *)

RECURSIVE PathOf(_)
\* the JSON path of a position made of property and items steps
PathOf(loc) ==
    IF loc = <<>> THEN <<>>
    ELSE Join(PathOf(SubSeq(loc, 1, Len(loc) - 1)),
              IF loc[Len(loc)].t = "prop" THEN loc[Len(loc)].k ELSE k0)

\* positions a JSON path can name: a property first, then properties and items
Addressable(loc) ==
    /\ loc # <<>>
    /\ loc[1].t = "prop"
    /\ \A i \in 1..Len(loc) : loc[i].t \in {"prop", "items"}

\* the first variant of the node that has the field
FirstVariantWith(node, fieldName) ==
    CHOOSE i \in 1..Len(node.oneOf) :
        /\ fieldName \in DOMAIN node.oneOf[i].properties.m
        /\ \A j \in 1..(i - 1) : fieldName \notin DOMAIN node.oneOf[j].properties.m

\* C16: for every polymorphic node P a path names and every field f of one of
\* its variants, FindField on P's path followed by f succeeds and returns the
\* node of f in the first variant that has it
PolymorphicTraversal ==
    \A loc \in Locs(existing.schema) :
        LET P == NodeAt(existing.schema, loc)
        IN (Addressable(loc) /\ P.type = "" /\ P.oneOf # <<>>) =>
               \A i \in 1..Len(P.oneOf) :
                   \A f \in DOMAIN P.oneOf[i].properties.m \ DOMAIN P.properties.m :
                       LET r == FindField(existing.schema, Join(PathOf(loc), f))
                       IN /\ r.err = ""
                          /\ r.loc = loc \o <<OneOfStep(FirstVariantWith(P, f)), PropStep(f)>>

---------------------------------------------------------------------------
(* Properties of merges after field edits *)

\* C17: a node whose preserveDefault flag was set while it had no default takes
\* the default of the incoming node at the next merge that brings one
PreArmedDefaultFilled ==
    MergeReturned =>
        \A loc \in PairedLocs(last.pre, last.inc) :
            LET node == NodeAt(last.pre.schema, loc)
                inc == NodeAt(last.inc.schema, loc)
            IN (node.preserveDefault /\ node.default = None /\ inc.default # None) =>
                   DefaultAt(existing.schema, loc) = inc.default

---------------------------------------------------------------------------
(* The saved schema file: json.MarshalIndent of the schema by SaveSchema and   *)
(* json.Unmarshal by LoadSchema.  A JSON object of the file is a function from *)
(* the names of its members; a member left out by omitempty is not in its      *)
(* domain.                                                                     *)

\* &types.AnalysisMetadata{GeneratedAt: time.Now(), Version: "1.0.0"}
NewMetadata(now) == [generatedAt |-> now, version |-> "1.0.0"]

RECURSIVE marshalProperty(_)
RECURSIVE marshalSchema(_)

\* the members JSONSchema and Property have in common; Extensions is tagged
\* json:"-" and is never written
marshalCommon(node) ==
    ("type" :> node.type)
        @@ (IF ~node.properties.nil /\ DOMAIN node.properties.m # {}
            THEN "properties" :>
                     [k \in DOMAIN node.properties.m |-> marshalProperty(node.properties.m[k])]
            ELSE <<>>)
        @@ (IF node.items # None THEN "items" :> marshalProperty(node.items[1]) ELSE <<>>)
        @@ (IF node.required # <<>> THEN "required" :> node.required ELSE <<>>)
        @@ (IF node.enum # <<>> THEN "enum" :> node.enum ELSE <<>>)
        @@ (IF node.oneOf # <<>>
            THEN "oneOf" :> [i \in 1..Len(node.oneOf) |-> marshalSchema(node.oneOf[i])]
            ELSE <<>>)
        @@ (IF node.anyOf # <<>>
            THEN "anyOf" :> [i \in 1..Len(node.anyOf) |-> marshalSchema(node.anyOf[i])]
            ELSE <<>>)
        @@ (IF node.description # <<>> THEN "description" :> node.description ELSE <<>>)
        @@ (IF node.default # None THEN "default" :> node.default[1] ELSE <<>>)

marshalProperty(prop) ==
    marshalCommon(prop)
        @@ (IF prop.preserveDefault THEN "x-preserve-default" :> TRUE ELSE <<>>)

marshalSchema(schema) == ("$schema" :> schema.schema) @@ marshalCommon(schema)

\* the file SaveSchema writes: the metadata goes to schema.Extensions and the
\* schema alone is serialized
SaveSchema(result) ==
    LET extensions == ("x-analysis-meta" :> result.metadata)
    IN marshalSchema(result.schema)

RECURSIVE unmarshalProperty(_)
RECURSIVE unmarshalSchema(_)

Member(object, name, absent) == IF name \in DOMAIN object THEN object[name] ELSE absent

unmarshalProperty(object) ==
    [type |-> Member(object, "type", ""),
     properties |->
        IF "properties" \in DOMAIN object
        THEN [nil |-> FALSE,
              m |-> [k \in DOMAIN object["properties"] |->
                        unmarshalProperty(object["properties"][k])]]
        ELSE NilMap,
     items |-> IF "items" \in DOMAIN object
               THEN Some(unmarshalProperty(object["items"]))
               ELSE None,
     required |-> Member(object, "required", <<>>),
     enum |-> Member(object, "enum", <<>>),
     oneOf |-> IF "oneOf" \in DOMAIN object
               THEN [i \in 1..Len(object["oneOf"]) |-> unmarshalSchema(object["oneOf"][i])]
               ELSE <<>>,
     anyOf |-> IF "anyOf" \in DOMAIN object
               THEN [i \in 1..Len(object["anyOf"]) |-> unmarshalSchema(object["anyOf"][i])]
               ELSE <<>>,
     description |-> Member(object, "description", <<>>),
     default |-> IF "default" \in DOMAIN object THEN Some(object["default"]) ELSE None,
     preserveDefault |-> Member(object, "x-preserve-default", FALSE)]

\* a JSONSchema has no member for x-preserve-default: the key is ignored
unmarshalSchema(object) ==
    LET common == unmarshalProperty(object)
    IN [schema |-> Member(object, "$schema", ""),
        type |-> common.type, properties |-> common.properties, items |-> common.items,
        required |-> common.required, enum |-> common.enum, oneOf |-> common.oneOf,
        anyOf |-> common.anyOf, description |-> common.description,
        default |-> common.default]

\* LoadSchema of a file, called at time now: the metadata is made anew
LoadSchemaAt(file, now) ==
    [schema |-> unmarshalSchema(file), stats |-> None, metadata |-> NewMetadata(now)]

---------------------------------------------------------------------------
(* Saving and loading on their own: results with their metadata, a clock that  *)
(* ticks once per command (nops), edits that set flags, and the round trip     *)

\* AnalyzeJSON at time now
AnalyzedAt(data, now) ==
    {[schema |-> r.schema, stats |-> r.stats, metadata |-> NewMetadata(now)] :
        r \in Analyses(data)}

InitStore ==
    \E data \in Docs :
        \E result \in AnalyzedAt(data, 0) :
            /\ existing = result
            /\ last = Op("analyze", NoResult, data, NoResult, "", <<>>)
            /\ nops = 0

\* cmd/update-field on the saved file, at time nops + 1
StoreEdited(op, pre, path, r) ==
    /\ existing' = IF r.err = "" THEN r.result ELSE existing
    /\ last' = Op(op, pre, JNull, NoResult, r.err, path)
    /\ nops' = nops + 1

StorePreserve ==
    /\ nops < MaxOps
    /\ LET pre == LoadSchemaAt(SaveSchema(existing), nops + 1)
       IN \E path \in EditPaths :
              StoreEdited("preserve-default", pre, path,
                          handlePreserveDefaultUpdate(pre, path))

StorePolymorph ==
    /\ nops < MaxOps
    /\ LET pre == LoadSchemaAt(SaveSchema(existing), nops + 1)
       IN \E path \in EditPaths :
              StoreEdited("polymorph", pre, path,
                          handlePolymorphicConversion(pre, path, <<admin, user>>))

\* SaveSchema of the result held, then LoadSchema of the file at time nops + 1
Reload ==
    /\ nops < MaxOps
    /\ existing' = LoadSchemaAt(SaveSchema(existing), nops + 1)
    /\ last' = Op("load", existing, JNull, NoResult, "", <<>>)
    /\ nops' = nops + 1

NextStore == StorePreserve \/ StorePolymorph \/ Reload

SpecStore == InitStore /\ [][NextStore]_vars

\* the flags of the tree, by position
FlagsOf(schema) ==
    [loc \in Locs(schema) |->
        IsProperty(NodeAt(schema, loc)) /\ NodeAt(schema, loc).preserveDefault]

\* the keys of the properties of the tree, by position
KeysOf(schema) == [loc \in Locs(schema) |-> DOMAIN NodeAt(schema, loc).properties.m]

\* last.pre is the result saved, existing the result loaded from the file
LoadStep == last.op = "load"

\* the flags come back as they were saved and no property is gained or lost
FlagsRoundTrip ==
    LoadStep =>
        /\ FlagsOf(existing.schema) = FlagsOf(last.pre.schema)
        /\ KeysOf(existing.schema) = KeysOf(last.pre.schema)

\* C18: loading what was saved gives every node the preserveDefault flag it had
\* and the metadata block the saved result had, and no extension key among the
\* properties
ExtensionKeysRoundTrip ==
    /\ FlagsRoundTrip
    /\ LoadStep => existing.metadata = last.pre.metadata

\* C19: where a field has one type in the existing tree and another in the
\* incoming one, the merge leaves the existing node as it was, default included
TypeMismatchFrame ==
    MergeReturned =>
        \A loc \in PairedLocs(last.pre, last.inc) :
            LET node == NodeAt(last.pre.schema, loc)
                inc == NodeAt(last.inc.schema, loc)
            IN node.type # inc.type => NodeAt(existing.schema, loc) = node

\* the keys a required list names
SeqSet(s) == {s[i] : i \in 1..Len(s)}

\* the positions of the object nodes both results have, the roots included
PairedObjects(e, n) ==
    {loc \in {<<>>} \cup PairedLocs(e, n) :
        NodeAt(e.schema, loc).type = "object" /\ NodeAt(n.schema, loc).type = "object"}

\* C20 as stated: after a merge the required list of an object node both trees
\* have names the keys of its list before the merge and of the incoming list
RequiredUnionGrowth ==
    MergeReturned =>
        \A loc \in PairedObjects(last.pre, last.inc) :
            SeqSet(NodeAt(existing.schema, loc).required) =
                SeqSet(NodeAt(last.pre.schema, loc).required)
                    \cup SeqSet(NodeAt(last.inc.schema, loc).required)

\* C20: a merge leaves the required list of every node of the existing tree as
\* it was: it neither grows with the keys of the incoming node nor shrinks
RequiredFrozenByMerge ==
    MergeStep =>
        \A loc \in Locs(last.pre.schema) :
            /\ HasLoc(existing.schema, loc)
            /\ NodeAt(existing.schema, loc).required = NodeAt(last.pre.schema, loc).required

\* an object gained a property from an incoming object that requires it, and
\* its required list still names its old keys only
RequiredFrozenWitness ==
    /\ MergeReturned
    /\ \E loc \in PairedObjects(last.pre, last.inc) :
           LET before == NodeAt(last.pre.schema, loc)
               inc == NodeAt(last.inc.schema, loc)
               after == NodeAt(existing.schema, loc)
           IN /\ before.required # <<>>
              /\ \E k \in SeqSet(inc.required) :
                     /\ k \notin SeqSet(before.required)
                     /\ k \in DOMAIN after.properties.m
                     /\ k \notin SeqSet(after.required)

---------------------------------------------------------------------------
(* Properties of the field listing *)

\* the segment of a listed path for one step: a key, 0 for the item schema, the
\* marker of a variant
StepSegment(step) ==
    CASE step.t = "prop" -> step.k
      [] step.t = "items" -> k0
      [] step.t = "oneOf" -> VariantMarker("oneOf", step.i - 1)
      [] step.t = "anyOf" -> VariantMarker("anyOf", step.i - 1)

RECURSIVE ListedPathOf(_)
\* the path under which a position of the tree is to be listed
ListedPathOf(loc) ==
    IF loc = <<>> THEN <<>>
    ELSE Join(ListedPathOf(SubSeq(loc, 1, Len(loc) - 1)), StepSegment(loc[Len(loc)]))

\* the positions of the fields: the nodes held in a properties map, but for
\* those below the item schema of a root array, which no path names
FieldLocs(schema) ==
    {loc \in Locs(schema) : loc # <<>> /\ loc[Len(loc)].t = "prop" /\ loc[1].t # "items"}

\* C21: ListFields returns the path of every field of the tree: the properties
\* of objects, of item schemas and of the variants of every node, those of a
\* polymorphic field node included
ListFieldsComplete ==
    \A loc \in FieldLocs(existing.schema) :
        ListedPathOf(loc) \in ListFields(existing.schema)

---------------------------------------------------------------------------
(* Name resolution on its own: schema files written by hand, with oneOf and    *)
(* anyOf lists and variants inside variants, loaded and searched for one name  *)

\* an object schema with string fields of the keys given
ObjectSchema(keys) ==
    [NewJSONSchema("object") EXCEPT
        !.properties = [nil |-> FALSE, m |-> [k \in keys |-> NewProperty("string")]]]

\* a schema that holds nothing but variants
VariantsOnly(oneOf, anyOf) == [NewJSONSchema("") EXCEPT !.oneOf = oneOf, !.anyOf = anyOf]

ResolveVariants ==
    {ObjectSchema({}), ObjectSchema({kA}), ObjectSchema({kB}),
     VariantsOnly(<<ObjectSchema({}), ObjectSchema({kB})>>, <<ObjectSchema({kA})>>)}

VariantLists == UNION {[1..n -> ResolveVariants] : n \in 0..MaxVariants}

ResolveSchemas ==
    {[ObjectSchema(keys) EXCEPT !.oneOf = oneOf, !.anyOf = anyOf] :
        keys \in {{}, {kA}}, oneOf \in VariantLists, anyOf \in VariantLists}

ResolveNames == {kA, kB, kType}

\* LoadSchema of the file
InitResolve ==
    \E schema \in ResolveSchemas :
        /\ existing = [schema |-> roundTripSchema(schema), stats |-> None]
        /\ last = Op("load", NoResult, JNull, NoResult, "", <<>>)
        /\ nops = 0

\* findFieldInSchema for one name on the root schema
Lookup ==
    \E fieldName \in ResolveNames :
        /\ last' = [Op("lookup", existing, JNull, NoResult, "", fieldName) EXCEPT
                        !.found = findFieldInSchema(existing.schema, fieldName, <<>>),
                        !.err = findFieldInSchema(existing.schema, fieldName, <<>>).err]
        /\ UNCHANGED <<existing, nops>>

NextResolve == Lookup

SpecResolve == InitResolve /\ [][NextResolve]_vars

RECURSIVE ContainsName(_, _)
\* the schema has the name among its properties or inside one of its variants
ContainsName(schema, fieldName) ==
    \/ fieldName \in DOMAIN schema.properties.m
    \/ \E i \in 1..Len(schema.oneOf) : ContainsName(schema.oneOf[i], fieldName)
    \/ \E i \in 1..Len(schema.anyOf) : ContainsName(schema.anyOf[i], fieldName)

\* the first variant of the list that contains the name, 0 if none does
FirstContaining(variants, fieldName) ==
    IF \E i \in 1..Len(variants) : ContainsName(variants[i], fieldName)
    THEN CHOOSE i \in 1..Len(variants) :
             /\ ContainsName(variants[i], fieldName)
             /\ \A j \in 1..(i - 1) : ~ContainsName(variants[j], fieldName)
    ELSE 0

RECURSIVE Resolution(_, _)
\* the position the name resolves to in a schema that contains it
Resolution(schema, fieldName) ==
    IF fieldName \in DOMAIN schema.properties.m THEN <<PropStep(fieldName)>>
    ELSE LET inOne == FirstContaining(schema.oneOf, fieldName)
             inAny == FirstContaining(schema.anyOf, fieldName)
         IN IF inOne > 0
            THEN <<OneOfStep(inOne)>> \o Resolution(schema.oneOf[inOne], fieldName)
            ELSE <<AnyOfStep(inAny)>> \o Resolution(schema.anyOf[inAny], fieldName)

LookupStep == last.op = "lookup"

\* C22: a name among the properties resolves to that property; otherwise to the
\* match in the first oneOf variant that contains it, variants inside variants
\* searched by the same rule; otherwise to the match in the first such anyOf
\* variant; a name no variant contains is not found
NameResolutionOrder ==
    LookupStep =>
        IF ContainsName(last.pre.schema, last.path)
        THEN /\ last.found.err = ""
             /\ last.found.loc = Resolution(last.pre.schema, last.path)
             /\ last.found.node = Some(NodeAt(last.pre.schema, last.found.loc))
        ELSE /\ last.found.err = "field not found"
             /\ last.found.node = None

\* a name that two oneOf variants and an anyOf variant contain was found in the
\* earlier oneOf variant, inside a variant of that variant
NameResolutionWitness ==
    /\ LookupStep
    /\ last.found.err = ""
    /\ Len(last.found.loc) = 3
    /\ last.found.loc[1] = OneOfStep(1)
    /\ Len(last.pre.schema.oneOf) = 2
    /\ ContainsName(last.pre.schema.oneOf[2], last.path)
    /\ \E i \in 1..Len(last.pre.schema.anyOf) :
           ContainsName(last.pre.schema.anyOf[i], last.path)

---------------------------------------------------------------------------
(* Properties of the numeric segments of a path *)

FindStep == last.op = "find"

\* the segments of the path of the last lookup
Segments == parseJSONPath(last.path).segments

RECURSIVE Denoted(_, _, _)
\* what the segments denote below the node at loc, read one by one: a numeric
\* segment is the item schema of the array reached so far, any other segment a
\* property of the node reached so far.  [ok, why, loc]
Denoted(schema, segments, loc) ==
    IF segments = <<>> THEN [ok |-> TRUE, why |-> "", loc |-> loc]
    ELSE LET node == NodeAt(schema, loc)
             segment == Head(segments)
         IN IF AtoiOk(segment)
            THEN IF node.type = "array" /\ node.items # None
                 THEN Denoted(schema, Tail(segments), Append(loc, ItemsStep))
                 ELSE [ok |-> FALSE, why |-> "not an array", loc |-> loc]
            ELSE IF segment \in DOMAIN node.properties.m
                 THEN Denoted(schema, Tail(segments), Append(loc, PropStep(segment)))
                 ELSE [ok |-> FALSE, why |-> "no such field", loc |-> loc]

\* the path starts with a name and holds a numeric segment
HasIndex ==
    /\ parseJSONPath(last.path).err = ""
    /\ ~AtoiOk(Segments[1])
    /\ \E i \in 2..Len(Segments) : AtoiOk(Segments[i])

\* C23: a numeric segment after a segment that resolves to a node that is not an
\* array, or to an array without items, makes FindField fail without a node;
\* after an array with items the lookup goes on inside the items, a last numeric
\* segment giving the items node itself
NumericSegmentRule ==
    (FindStep /\ HasIndex) =>
        LET denoted == Denoted(last.pre.schema, Segments, <<>>)
        IN /\ (~denoted.ok /\ denoted.why = "not an array") =>
                  /\ last.found.err # ""
                  /\ last.found.node = None
           /\ denoted.ok =>
                  /\ last.found.err = ""
                  /\ last.found.loc = denoted.loc
                  /\ last.found.node = Some(NodeAt(last.pre.schema, denoted.loc))

\* the same for paths in which no numeric segment follows a numeric one
NumericAfterName ==
    (\A i \in 2..Len(Segments) : ~(AtoiOk(Segments[i - 1]) /\ AtoiOk(Segments[i])))
        => NumericSegmentRule

\* C24: for a field m that is an array of arrays with items, FindField on m.0.0
\* returns the item schema of the inner array
NestedIndexResolves ==
    FindStep =>
        \A fieldName \in DOMAIN last.pre.schema.properties.m :
            LET field == last.pre.schema.properties.m[fieldName]
            IN (/\ last.path = fieldName \o <<".", "0", ".", "0">>
                /\ ~AtoiOk(fieldName)
                /\ field.type = "array" /\ field.items # None
                /\ field.items[1].type = "array" /\ field.items[1].items # None) =>
                   /\ last.found.err = ""
                   /\ last.found.loc = <<PropStep(fieldName), ItemsStep, ItemsStep>>

---------------------------------------------------------------------------
(* pkg/validator: the count of validated fields, and cmd/validate on its own *)

RECURSIVE countFieldsRecursive(_)
RECURSIVE countEntries(_, _)
RECURSIVE countItems(_)

\* the loop over the entries of an object still to visit
countEntries(obj, keys) ==
    IF keys = {} THEN 0
    ELSE LET key == CHOOSE k \in keys : TRUE
         IN 1 + countFieldsRecursive(obj[key]) + countEntries(obj, keys \ {key})

\* a variant that counts the element itself as well
countItems_CountsElements(arr) ==
    IF arr = <<>> THEN 0
    ELSE 1 + countFieldsRecursive(Head(arr)) + countItems(Tail(arr))

\* the loop over the elements of an array
countItems(arr) ==
    IF arr = <<>> THEN 0
    ELSE countFieldsRecursive(Head(arr)) + countItems(Tail(arr))

countFieldsRecursive(data) ==
    CASE data.kind = "object" -> countEntries(data.f, DOMAIN data.f)
      [] data.kind = "array" -> countItems(data.a)
      [] OTHER -> 0

\* the part of a ValidationResult the program computes itself
ValidateBytes(data) == [validatedFields |-> countFieldsRecursive(data)]

\* before the validation there is no result
InitValidate ==
    /\ existing = NoResult
    /\ last = Op("start", NoResult, JNull, NoResult, "", <<>>)
    /\ nops = 0

\* one run of cmd/validate: existing holds the ValidationResult
Validate ==
    /\ nops = 0
    /\ \E data \in InferDocs :
           /\ existing' = ValidateBytes(data)
           /\ last' = Op("validate", NoResult, data, NoResult, "", <<>>)
           /\ nops' = 1

NextValidate == Validate

SpecValidate == InitValidate /\ [][NextValidate]_vars

---------------------------------------------------------------------------
(* Properties of the count of validated fields *)

KeyStep(key) == [t |-> "key", k |-> key, i |-> 0]
ElemStep(i) == [t |-> "elem", k |-> <<>>, i |-> i]

RECURSIVE ValueLocs(_)
\* the positions in a document: the steps from the root to a value, by the key
\* of an object entry or the index of an array element
ValueLocs(value) ==
    {<<>>}
        \cup (IF value.kind = "object"
              THEN UNION {{<<KeyStep(k)>> \o loc : loc \in ValueLocs(value.f[k])} :
                             k \in DOMAIN value.f}
              ELSE {})
        \cup (IF value.kind = "array"
              THEN UNION {{<<ElemStep(i)>> \o loc : loc \in ValueLocs(value.a[i])} :
                             i \in 1..Len(value.a)}
              ELSE {})

ValidateStep == last.op = "validate"

\* C25 as stated: the count is the number of object entries and array elements
\* of the document, at every depth
CountsEntriesAndElements ==
    ValidateStep =>
        existing.validatedFields = Cardinality(ValueLocs(last.doc) \ {<<>>})

\* C25: the count is the number of object entries of the document, at every
\* depth; an array element and a primitive value count nothing themselves
CountsEntriesOnly ==
    ValidateStep =>
        existing.validatedFields =
            Cardinality({loc \in ValueLocs(last.doc) :
                            loc # <<>> /\ loc[Len(loc)].t = "key"})

\* an array of an object with one entry and a number: the count is 1, the entry
CountsEntriesOnlyWitness ==
    /\ ValidateStep
    /\ last.doc.kind = "array"
    /\ Len(last.doc.a) = 2
    /\ last.doc.a[1].kind = "object"
    /\ last.doc.a[2].kind = "number"
    /\ existing.validatedFields = 1

---------------------------------------------------------------------------
(* The default of one field over a run of updates: a first analysis of a       *)
(* document {"a": v}, then cmd/update with further such documents; last.args   *)
(* keeps the values seen so far                                                *)

InitDefaults ==
    \E v \in Scalars :
        \E result \in Analyses(Obj1(kA, v)) :
            /\ existing = result
            /\ last = [Op("analyze", NoResult, Obj1(kA, v), NoResult, "", <<>>) EXCEPT
                           !.args = <<v>>]
            /\ nops = 0

\* cmd/update with one more document
Observe ==
    /\ nops < MaxOps
    /\ LET pre == LoadSchema(existing)
       IN \E v \in Scalars :
              \E inc \in Analyses(Obj1(kA, v)) :
                  LET r == MergeResults(pre, inc)
                  IN /\ existing' = r.result
                     /\ last' = [Op("update", pre, Obj1(kA, v), inc,
                                     IF r.panic THEN "panic" ELSE "", <<>>) EXCEPT
                                    !.args = Append(last.args, v)]
                     /\ nops' = nops + 1

NextDefaults == Observe

SpecDefaults == InitDefaults /\ [][NextDefaults]_vars

\* the string forms of the defaults observed for the field so far: one for
\* every value seen that is given a default by the inference
ObservedForms ==
    {Sprintf(last.args[i]) :
        i \in {j \in 1..Len(last.args) :
                  analyzeValue(last.args[j], NewStatistics, <<>>).p.default # None}}

\* C26: while the default of an unprotected field is not nil, all the defaults
\* observed for the field so far have one string form: a default cleared by two
\* differing observations is nil after every later merge
ClearedDefaultStaysCleared ==
    LET field == existing.schema.properties.m[kA]
    IN (~field.preserveDefault /\ field.default # None) =>
           Cardinality(ObservedForms) <= 1

\* the last two updates were given the same document
SameDocumentTwice ==
    /\ last.op = "update"
    /\ last.err = ""
    /\ Len(last.args) >= 3
    /\ last.args[Len(last.args)] = last.args[Len(last.args) - 1]

\* C27: merging the tree inferred from a document a second time leaves the
\* schema tree as the first merge of it left it (last.pre, as loaded)
MergeIdempotent == SameDocumentTwice => existing.schema = last.pre.schema

---------------------------------------------------------------------------
(* Properties of the merge at the root *)

\* what the root holds besides its properties
RootFrame(schema) ==
    [type |-> schema.type, items |-> schema.items, required |-> schema.required,
     default |-> schema.default]

\* C28: a merge leaves the type, items, required list and default of the
\* existing root as they were, whatever the incoming root holds
RootFrameUnchanged ==
    MergeStep => RootFrame(existing.schema) = RootFrame(last.pre.schema)

\* two array roots met, the incoming one with an item schema the existing one
\* lacks, and the existing root still has no items
RootFrameWitness ==
    /\ MergeReturned
    /\ last.pre.schema.type = "array"
    /\ last.inc.schema.type = "array"
    /\ last.pre.schema.items = None
    /\ last.inc.schema.items # None
    /\ existing.schema.items = None

---------------------------------------------------------------------------
(* Properties of failed field edits *)

EditOps == {"enum", "polymorph", "preserve-default", "description"}

\* the results the handler of the last edit can have left in memory, over the
\* lines typed that last does not keep
InMemoryAfterEdit ==
    CASE last.op = "enum" ->
            {handleEnumConversion(last.pre, last.path, last.args, interactive, desc).result :
                interactive \in BOOLEAN, desc \in DescInputs}
      [] last.op = "polymorph" ->
            {handlePolymorphicConversion(last.pre, last.path, last.args).result}
      [] last.op = "preserve-default" ->
            {handlePreserveDefaultUpdate(last.pre, last.path).result}
      [] last.op = "description" ->
            {handleDescriptionUpdate(last.pre, last.path, newDesc).result :
                newDesc \in DescInputs}

\* C29: an edit that returned an error has modified no node of the loaded tree
\* and has not rewritten the schema file
FailedEditChangesNothing ==
    (last.op \in EditOps /\ last.err # "") =>
        /\ InMemoryAfterEdit = {last.pre}
        /\ NothingSaved

\* edits failed after their field was found: a string field given no enum
\* values or asked to become polymorphic, an object field given no variants
FailedEditWitness ==
    /\ last.op \in EditOps
    /\ Located.err = ""
    /\ last.err \in {"no variants", "no enum values", "not an object field"}

---------------------------------------------------------------------------
(* fieldmanager.UpdateField on its own: callbacks applied to located fields *)

\* the callbacks passed as updater: each returns the field as it leaves it and
\* its error
Updaters == {"describe", "retype", "reject", "spoil"}

updater(kind, field) ==
    CASE kind = "describe" ->
            [err |-> "", field |-> [field EXCEPT !.description = <<"note">>]]
      [] kind = "retype" ->
            [err |-> "", field |-> [field EXCEPT !.type = ""]]
      [] kind = "reject" ->
            [err |-> "rejected", field |-> field]
      [] kind = "spoil" ->
            [err |-> "rejected", field |-> [field EXCEPT !.preserveDefault = TRUE]]

\* a variant that hands the callback a copy of the field
UpdateField_OnCopy(schema, jsonPath, kind) ==
    LET field == FindField(schema, jsonPath) IN
    IF field.err # ""
    THEN [err |-> field.err, schema |-> schema, called |-> <<>>]
    ELSE [err |-> updater(kind, field.node[1]).err,
          schema |-> schema,
          called |-> <<field.node[1]>>]

\* called: the fields the callback was invoked on, in order; schema: the tree
\* after the callback's writes through the pointer it was given
UpdateField(schema, jsonPath, kind) ==
    LET field == FindField(schema, jsonPath) IN
    IF field.err # ""
    THEN [err |-> field.err, schema |-> schema, called |-> <<>>]
    ELSE [err |-> updater(kind, field.node[1]).err,
          schema |-> ReplaceAt(schema, field.loc, updater(kind, field.node[1]).field),
          called |-> <<field.node[1]>>]

\* UpdateField with one of the callbacks on a listed path or another path
Update ==
    /\ nops < MaxOps
    /\ \E path \in ListFields(existing.schema) \cup LocatorPaths :
         \E kind \in Updaters :
            LET u == UpdateField(existing.schema, path, kind) IN
            /\ existing' = [existing EXCEPT !.schema = u.schema]
            /\ last' = [Op("update-field", existing, JNull, NoResult, u.err, path) EXCEPT
                            !.found = FindField(existing.schema, path),
                            !.args = <<kind>>]
            /\ nops' = nops + 1

NextUpdate == Update

SpecUpdate == InitLocator /\ [][NextUpdate]_vars

UpdateStep == last.op = "update-field"

\* C30: UpdateField calls the callback once, on the field FindField returns, and
\* returns the callback's error; the callback's writes are in the tree, where a
\* second FindField of the path finds them; when FindField fails the callback
\* is not called, the tree is untouched and the error is FindField's
UpdateFieldContract ==
    UpdateStep =>
        LET u == UpdateField(last.pre.schema, last.path, last.args[1]) IN
        /\ existing.schema = u.schema
        /\ last.err = u.err
        /\ IF last.found.err # ""
           THEN /\ u.called = <<>>
                /\ existing = last.pre
                /\ last.err = last.found.err
           ELSE /\ u.called = <<last.found.node[1]>>
                /\ last.err = updater(last.args[1], last.found.node[1]).err
                /\ FindField(existing.schema, last.path)
                      = Found(updater(last.args[1], last.found.node[1]).field,
                              last.found.loc)
                /\ \A loc \in Locs(last.pre.schema) :
                      (/\ Len(loc) <= Len(last.found.loc)
                       /\ loc # SubSeq(last.found.loc, 1, Len(loc)))
                          => /\ HasLoc(existing.schema, loc)
                             /\ IsProperty(NodeAt(existing.schema, loc))
                                  = IsProperty(NodeAt(last.pre.schema, loc))

\* a callback that wrote to a field nested in an array's items and returned an
\* error, and, apart from it, a callback never called
UpdateFieldWitness ==
    /\ UpdateStep
    /\ last.found.err = ""
    /\ Len(last.found.loc) >= 2
    /\ last.args = <<"spoil">>
    /\ last.err = "rejected"
    /\ existing # last.pre

UpdateFieldNotCalledWitness ==
    /\ UpdateStep
    /\ last.found.err # ""
    /\ last.err = last.found.err

====
